---- MODULE Spec2Model ----
(***************************************************************************)
(* ec2scheduler/scheduler.py: the hourly loop that starts and stops EC2    *)
(* instances from a weekly schedule and reregisters the instances of the   *)
(* profile's load balancers.                                               *)
(*                                                                         *)
(* The provider (boto EC2 / ELB) is the environment: every provider call   *)
(* either returns or raises.  An exception that no handler of scheduler.py *)
(* catches unwinds run() and ends the process (pc = "crashed").            *)
(***************************************************************************)
EXTENDS Integers, Sequences, FiniteSets, TLC

\* ------------------------------------------------------------------ bounds
NumInst   == 2      \* instances known to the provider
MaxPasses == 2      \* passes of schedule() explored
MaxTicks  == 1      \* hour changes of the clock while passes run
MaxFaults == 1      \* provider calls that raise

\* --------------------------------------------------------- program domains
HoursPerDay == 24

Hours == 0 .. (HoursPerDay - 1)

WeekDays == <<"monday", "tuesday", "wednesday", "thursday",
              "friday", "saturday", "sunday">>

WeekDayNames == {WeekDays[k] : k \in 1 .. Len(WeekDays)}

\* instance.state as boto reports it
InstanceStates == {"pending", "running", "shutting-down",
                   "terminated", "stopping", "stopped"}

Inst == 1 .. NumInst

ElbNames == {"lb-a", "lb-b"}

\* ------------------------------------------------------------ pure helpers
\* The mutated comparison: the stop hour is taken as inclusive.
DesiredStateStopInclusive(start, stop, current_hour) ==
    IF current_hour >= start /\ current_hour <= stop THEN "start" ELSE "stop"

\* The mutated comparison: `or` in place of `and`, as for a window over midnight.
DesiredStateEither(start, stop, current_hour) ==
    IF current_hour >= start \/ current_hour < stop THEN "start" ELSE "stop"

\* The mutated comparison: the stop hour is not tested.
DesiredStateNoStop(start, stop, current_hour) ==
    IF current_hour >= start THEN "start" ELSE "stop"

\* lines 154-158: state = 'stop'; 'start' iff start <= current_hour < stop
DesiredState(start, stop, current_hour) ==
    IF current_hour >= start /\ current_hour < stop THEN "start" ELSE "stop"

\* The mutated lookup: a weekday the schedule leaves out counts as 'stop'.
GetDesiredStateDefaultStop(schedule, current_week_day, current_hour) ==
    IF current_week_day \notin DOMAIN schedule
    THEN "stop"
    ELSE DesiredState(schedule[current_week_day].start,
                      schedule[current_week_day].stop, current_hour)

\* lines 148-158 once the hour and the weekday have been read from the clock;
\* "KeyError" stands for the exception schedule[current_week_day] raises.
_get_desired_state(schedule, current_week_day, current_hour) ==
    IF current_week_day \notin DOMAIN schedule
    THEN "KeyError"
    ELSE DesiredState(schedule[current_week_day].start,
                      schedule[current_week_day].stop, current_hour)

\* line 130, left operand of `and`: instance.state == 'running'
IsRunning(state) == state = "running"

\* The mutated test: every instance that is not running passes for stopped.
IsStoppedNotRunning(state) == state # "running"

\* line 133, left operand of `and`: instance.state == 'stopped'
IsStopped(state) == state = "stopped"

\* lines 130, 133: _get_desired_state is called when the left operand of one of
\* the two tests holds (`and` does not evaluate its right operand otherwise)
CallsDesiredState(state) == IsRunning(state) \/ IsStopped(state)

\* The mutated branch: a running instance is stopped whatever the schedule says.
InstanceActionAlwaysStop(state, desired) ==
    IF IsRunning(state) THEN "stop"
    ELSE IF IsStopped(state) /\ desired = "start" THEN "start"
    ELSE "none"

\* lines 130-137: the if / elif / else on (instance.state, desired state)
InstanceAction(state, desired) ==
    IF IsRunning(state) /\ desired = "stop" THEN "stop"
    ELSE IF IsStopped(state) /\ desired = "start" THEN "start"
    ELSE "none"

\* the clock one hour earlier
PrevHour(c) ==
    IF c.hour > 0
    THEN [day |-> c.day, hour |-> c.hour - 1]
    ELSE [day |-> ((c.day + Len(WeekDays) - 2) % Len(WeekDays)) + 1,
          hour |-> HoursPerDay - 1]

\* the clock one hour later
NextHour(c) ==
    IF c.hour + 1 < HoursPerDay
    THEN [day |-> c.day, hour |-> c.hour + 1]
    ELSE [day |-> (c.day % Len(WeekDays)) + 1, hour |-> 0]

RECURSIVE SetToSeq(_)
\* the elements of a finite set of integers in increasing order
SetToSeq(S) ==
    IF S = {} THEN <<>>
    ELSE LET m == CHOOSE x \in S : \A y \in S : x <= y
         IN  <<m>> \o SetToSeq(S \ {m})

\* The mutated loop: the list is returned before anything is appended.
GetInstanceIdsNone(instances) == <<>>

\* lines 182-195: the ids of the given instances, in order
_get_instance_ids(instances) == [k \in 1 .. Len(instances) |-> instances[k].id]

SeqRange(s) == {s[k] : k \in 1 .. Len(s)}

\* ------------------------------------------------------ schedule file data
Entry(a, b) == [start |-> a, stop |-> b]

\* business hours on working days, never running at the weekend
SchedOffice ==
    [d \in WeekDayNames |->
        IF d \in {"saturday", "sunday"} THEN Entry(0, 0) ELSE Entry(9, 18)]

\* a window written across midnight
SchedNight == [d \in WeekDayNames |-> Entry(22, 6)]

\* a schedule file that leaves the weekend out
SchedPartial == [d \in WeekDayNames \ {"saturday", "sunday"} |-> Entry(0, 23)]

Region == "sa-east-1"

ProfileNoElb(n, tags, sched) ==
    [name |-> n, region |-> Region, instance_tags |-> tags, schedule |-> sched]

ProfileElb(n, tags, sched, elbs) ==
    [name |-> n, region |-> Region, instance_tags |-> tags, schedule |-> sched,
     elb_names |-> elbs]

\* the contents of schedules['profiles'] the model explores (line 60, 95)
ScheduleFiles ==
    { << ProfileNoElb("web", "web", SchedOffice),
         ProfileElb("web-again", "web", SchedOffice, <<"lb-a", "lb-b">>) >>,
      << ProfileElb("night", "web", SchedNight, <<"lb-b">>),
         ProfileElb("batch", "web", SchedPartial, <<>>) >> }

\* the Name tag of an instance: every third instance belongs to another group
InstTag(id) == IF id % 3 = 0 THEN "db" ELSE "web"

\* the load balancers of the region, in the provider's listing order
AllElbs == <<"lb-a", "lb-b">>

\* the instants at which the process may be started
StartDays == {5, 7}

StartHours == {8, 17, 23}

\* ------------------------------------------------------------------- state
VARIABLES
    schedules,      \* schedules['profiles'], set by init() and never changed
    clock,          \* what utcnow() returns: [day, hour]
    inst_state,     \* provider side: the state of every instance
    attached,       \* provider side: the instances attached to each load balancer
    pc,             \* position of the process
    p,              \* index of the profile schedule() is at
    instances,      \* the listing start_stop_instances iterates (id, state)
    i,              \* index into instances
    current_hour,   \* local of _get_desired_state
    elbs,           \* the load balancers reregister_elb_instances iterates
    e,              \* index into elbs
    calls,          \* history: the provider calls and delays of the current pass
    passes,         \* history: passes started
    ticks,          \* history: hour changes of the clock during passes
    faults          \* history: provider calls that raised

vars == <<schedules, clock, inst_state, attached, pc, p, instances, i,
          current_hour, elbs, e, calls, passes, ticks, faults>>

Call(op, tgt, arg, ok) == [op |-> op, prof |-> p, tgt |-> tgt, arg |-> arg, ok |-> ok]

Log(c) == calls' = Append(calls, c)

profile == schedules[p]

\* the instances attached to load balancer n when the process starts
AttachedAtStart(n) == IF n = "lb-a" THEN Inst ELSE {1}

\* state after init() (lines 36-38, 44-60): connections made, schedule loaded
Init ==
    /\ schedules \in ScheduleFiles
    /\ clock \in [day : StartDays, hour : StartHours]
    /\ inst_state \in [Inst -> InstanceStates]
    /\ attached = [n \in ElbNames |-> AttachedAtStart(n)]
    /\ pc = "loop"
    /\ p = 0
    /\ instances = <<>>
    /\ i = 0
    /\ current_hour = 0
    /\ elbs = <<>>
    /\ e = 0
    /\ calls = <<>>
    /\ passes = 0
    /\ ticks = 0
    /\ faults = 0

\* ------------------------------------------------------------ run / schedule
\* an exception no handler catches: it unwinds schedule() and run()
Raise ==
    /\ pc' = "crashed"

\* a provider call raises instead of returning
Fault ==
    /\ faults < MaxFaults
    /\ faults' = faults + 1

\* the mutated loop: it starts at the last profile
FirstProfileLast == Len(schedules)

\* line 99: the profile the for loop starts at
FirstProfile == 1

\* line 99: the profile the for loop takes after profile k
AfterProfile(k) == k + 1

\* line 99: whether the for loop has a profile at position k
HasProfile(k) == k >= 1 /\ k <= Len(schedules)

\* The mutated loop: the next pass is entered without the wait of line 42.
AfterLastProfileNoSleep == "loop"

\* lines 41-42: when schedule() returns, run() goes on to time.sleep(3600)
AfterLastProfile == "sleep"

\* lines 40-41, 99: while True enters schedule(), which takes its first profile
BeginPass ==
    /\ pc = "loop"
    /\ passes < MaxPasses
    /\ passes' = passes + 1
    /\ calls' = <<>>
    /\ p' = FirstProfile
    /\ pc' = IF HasProfile(FirstProfile) THEN "get_instances"
             ELSE AfterLastProfile
    /\ UNCHANGED <<schedules, clock, inst_state, attached, instances, i,
                   current_hour, elbs, e, ticks, faults>>

\* what get_all_instances(filters={"tag:Name": tags}) returns, reservations
\* flattened (lines 124-125): the matching instances with their present state
Listing(tags) ==
    LET ids == SetToSeq({id \in Inst : InstTag(id) = tags})
    IN  [k \in 1 .. Len(ids) |-> [id |-> ids[k], state |-> inst_state[ids[k]]]]

\* lines 100-101, 105-115: _get_instances, whose provider call returns or raises
GetInstances ==
    /\ pc = "get_instances"
    /\ \/ /\ instances' = Listing(profile.instance_tags)
          /\ i' = 1
          /\ Log(Call("list", profile.instance_tags,
                      Listing(profile.instance_tags), TRUE))
          /\ pc' = "start_stop"
          /\ UNCHANGED faults
       \/ /\ Fault
          /\ Log(Call("list", profile.instance_tags, <<>>, FALSE))
          /\ Raise
          /\ UNCHANGED <<instances, i>>
    /\ UNCHANGED <<schedules, clock, inst_state, attached, p, current_hour,
                   elbs, e, passes, ticks>>

\* lines 99, 42: the for loop takes the next profile, or schedule() returns
NextProfile ==
    /\ pc = "next_profile"
    /\ IF HasProfile(AfterProfile(p))
       THEN /\ p' = AfterProfile(p)
            /\ pc' = "get_instances"
       ELSE /\ p' = p
            /\ pc' = AfterLastProfile
    /\ instances' = <<>>
    /\ i' = 0
    /\ elbs' = <<>>
    /\ e' = 0
    /\ UNCHANGED <<schedules, clock, inst_state, attached, current_hour,
                   calls, passes, ticks, faults>>

\* line 42: time.sleep(3600); the clock shows the next hour afterwards
Sleep ==
    /\ pc = "sleep"
    /\ clock' = NextHour(clock)
    /\ pc' = "loop"
    /\ UNCHANGED <<schedules, inst_state, attached, p, instances, i,
                   current_hour, elbs, e, calls, passes, ticks, faults>>

\* ------------------------------------------------------ start_stop_instances
\* lines 124-130, 133, 137, 148: the loop takes its next instance; an instance
\* that is neither running nor stopped falls to the else branch, any other one
\* enters _get_desired_state, which reads the hour first
StartStopNext ==
    /\ pc = "start_stop"
    /\ IF i > Len(instances)
       THEN /\ pc' = "reregister"
            /\ UNCHANGED <<i, current_hour>>
       ELSE IF CallsDesiredState(instances[i].state)
       THEN /\ current_hour' = clock.hour
            /\ pc' = "desired_state"
            /\ i' = i
       ELSE /\ i' = i + 1
            /\ pc' = "start_stop"
            /\ UNCHANGED current_hour
    /\ UNCHANGED <<schedules, clock, inst_state, attached, p, instances,
                   elbs, e, calls, passes, ticks, faults>>

\* provider side of instance.stop() (line 132)
StopEffect(s) == IF s \in {"running", "pending"} THEN "stopping" ELSE s

\* provider side of instance.start() (line 135)
StartEffect(s) == IF s = "stopped" THEN "pending" ELSE s

\* lines 149-158, then 130-137: _get_desired_state reads the weekday, looks the
\* schedule up and compares; the branch taken issues stop(), start() or nothing.
\* A raising lookup or provider call is not caught.
GetDesiredState ==
    /\ pc = "desired_state"
    /\ LET wd      == WeekDays[clock.day]
           desired == _get_desired_state(profile.schedule, wd, current_hour)
           inst    == instances[i]
           act     == InstanceAction(inst.state, desired)
           looked  == Call("desired", inst.id, <<wd, current_hour, desired>>,
                           desired # "KeyError")
       IN  IF desired = "KeyError"
           THEN /\ calls' = Append(calls, looked)
                /\ Raise
                /\ UNCHANGED <<inst_state, i, faults>>
           ELSE IF act = "none"
           THEN /\ calls' = Append(calls, looked)
                /\ i' = i + 1
                /\ pc' = "start_stop"
                /\ UNCHANGED <<inst_state, faults>>
           ELSE \/ /\ calls' = calls \o <<looked, Call(act, inst.id, inst.state, TRUE)>>
                   /\ inst_state' =
                        [inst_state EXCEPT ![inst.id] =
                            IF act = "stop" THEN StopEffect(@) ELSE StartEffect(@)]
                   /\ i' = i + 1
                   /\ pc' = "start_stop"
                   /\ UNCHANGED faults
                \/ /\ Fault
                   /\ calls' = calls \o <<looked, Call(act, inst.id, inst.state, FALSE)>>
                   /\ Raise
                   /\ UNCHANGED <<inst_state, i>>
    /\ UNCHANGED <<schedules, clock, attached, p, instances, current_hour,
                   elbs, e, passes, ticks>>

\* ------------------------------------------------- reregister_elb_instances
\* what get_all_load_balancers(names) can return: the named load balancers with
\* the instances attached now; for an empty list of names the request carries
\* no name filter, and the answer is none or every load balancer of the region
LoadBalancer(n) ==
    LET ids == SetToSeq(attached[n])
    IN  [name |-> n, instances |-> [k \in 1 .. Len(ids) |-> [id |-> ids[k]]]]

LookupResults(names) ==
    IF Len(names) > 0
    THEN {[k \in 1 .. Len(names) |-> LoadBalancer(names[k])]}
    ELSE {<<>>, [k \in 1 .. Len(AllElbs) |-> LoadBalancer(AllElbs[k])]}

\* The mutated test: the refresh is made only after a start or a stop call of
\* the profile.
HasElbNamesIfChanged(prof) ==
    /\ "elb_names" \in DOMAIN prof
    /\ \E n \in 1 .. Len(calls) :
          calls[n].prof = p /\ calls[n].op \in {"start", "stop"}

\* line 168: 'elb_names' in profile
HasElbNames(prof) == "elb_names" \in DOMAIN prof

\* lines 168-170: without the key nothing is done; with it the load balancers
\* are looked up, and a raising lookup is not caught
Reregister ==
    /\ pc = "reregister"
    /\ IF ~HasElbNames(profile)
       THEN /\ pc' = "next_profile"
            /\ UNCHANGED <<elbs, e, calls, faults>>
       ELSE \/ \E r \in LookupResults(profile.elb_names) :
                  /\ elbs' = r
                  /\ e' = 1
                  /\ Log(Call("lookup", profile.elb_names, r, TRUE))
                  /\ pc' = "elb_loop"
                  /\ UNCHANGED faults
            \/ /\ Fault
               /\ Log(Call("lookup", profile.elb_names, <<>>, FALSE))
               /\ Raise
               /\ UNCHANGED <<elbs, e>>
    /\ UNCHANGED <<schedules, clock, inst_state, attached, p, instances, i,
                   current_hour, passes, ticks>>

\* line 171: the for loop is exhausted
ElbDone ==
    /\ pc = "elb_loop"
    /\ e > Len(elbs)
    /\ pc' = "next_profile"
    /\ UNCHANGED <<schedules, clock, inst_state, attached, p, instances, i,
                   current_hour, elbs, e, calls, passes, ticks, faults>>

\* the mutated handler: it leaves the function
AfterElbFailureReturn == "next_profile"

\* lines 177-180: the handler prints and falls through to the delay
AfterElbFailure == "throttle"

\* the mutated try block: register_instances is never reached
AfterDeregisterSkip == "throttle"

\* lines 175-176: after deregister_instances returned, register_instances is next
AfterDeregister == "register"

\* lines 171-175, 177-178: the ids are collected and deregister_instances is
\* called; it returns, or raises into the handler
Deregister ==
    /\ pc = "elb_loop"
    /\ e <= Len(elbs)
    /\ LET elb          == elbs[e]
           instance_ids == _get_instance_ids(elb.instances)
       IN  \/ /\ attached' = [attached EXCEPT ![elb.name] = @ \ SeqRange(instance_ids)]
              /\ Log(Call("deregister", elb.name, instance_ids, TRUE))
              /\ pc' = AfterDeregister
              /\ UNCHANGED faults
           \/ /\ Fault
              /\ Log(Call("deregister", elb.name, instance_ids, FALSE))
              /\ pc' = AfterElbFailure
              /\ UNCHANGED attached
    /\ UNCHANGED <<schedules, clock, inst_state, p, instances, i,
                   current_hour, elbs, e, passes, ticks>>

\* lines 176-178: register_instances with the same ids returns, or raises into
\* the handler
Register ==
    /\ pc = "register"
    /\ LET elb          == elbs[e]
           instance_ids == _get_instance_ids(elb.instances)
       IN  \/ /\ attached' = [attached EXCEPT ![elb.name] = @ \cup SeqRange(instance_ids)]
              /\ Log(Call("register", elb.name, instance_ids, TRUE))
              /\ UNCHANGED faults
           \/ /\ Fault
              /\ Log(Call("register", elb.name, instance_ids, FALSE))
              /\ UNCHANGED attached
    /\ pc' = "throttle"
    /\ UNCHANGED <<schedules, clock, inst_state, p, instances, i,
                   current_hour, elbs, e, passes, ticks>>

\* The mutated loop: the delay is left out.
ThrottleNoDelay ==
    /\ pc = "throttle"
    /\ e' = e + 1
    /\ pc' = "elb_loop"
    /\ UNCHANGED <<schedules, clock, inst_state, attached, p, instances, i,
                   current_hour, elbs, calls, passes, ticks, faults>>

\* line 180: time.sleep(1), then the loop takes the next load balancer
Throttle ==
    /\ pc = "throttle"
    /\ Log(Call("sleep1", elbs[e].name, <<>>, TRUE))
    /\ e' = e + 1
    /\ pc' = "elb_loop"
    /\ UNCHANGED <<schedules, clock, inst_state, attached, p, instances, i,
                   current_hour, elbs, passes, ticks, faults>>

\* ------------------------------------------------------------- environment
\* lines 27-28: the clock utcnow() reads passes an hour boundary during a pass.
\* The process reads the clock at lines 148 and 149 only, so the hour changes
\* that matter are those just before one of the two reads.
Tick ==
    /\ \/ pc = "desired_state"
       \/ /\ pc = "start_stop"
          /\ i <= Len(instances)
          /\ CallsDesiredState(instances[i].state)
    /\ ticks < MaxTicks
    /\ ticks' = ticks + 1
    /\ clock' = NextHour(clock)
    /\ UNCHANGED <<schedules, inst_state, attached, pc, p, instances, i,
                   current_hour, elbs, e, calls, passes, faults>>

\* the provider completes a transition it has begun
Settled(s) ==
    IF s = "pending" THEN "running"
    ELSE IF s = "stopping" THEN "stopped"
    ELSE IF s = "shutting-down" THEN "terminated"
    ELSE s

\* The process reads an instance's state in the listing only (line 115), so
\* the transitions that matter are those completed just before a listing; Init
\* already draws every state an instance can be in at the first listing.
Settle ==
    /\ pc = "get_instances"
    /\ \E id \in Inst :
          /\ Settled(inst_state[id]) # inst_state[id]
          /\ inst_state' = [inst_state EXCEPT ![id] = Settled(@)]
    /\ UNCHANGED <<schedules, clock, attached, pc, p, instances, i,
                   current_hour, elbs, e, calls, passes, ticks, faults>>

Next ==
    \/ BeginPass
    \/ GetInstances
    \/ StartStopNext
    \/ GetDesiredState
    \/ Reregister
    \/ ElbDone
    \/ Deregister
    \/ Register
    \/ Throttle
    \/ NextProfile
    \/ Sleep
    \/ Tick
    \/ Settle

Spec == Init /\ [][Next]_vars

\* ------------------------------------------- the desired state on its own
\* One instance, running or stopped, is evaluated once at every instant of the
\* week against every schedule entry {start, stop} of that weekday; the other
\* weekdays carry the entry mirrored, so that a lookup of another day shows.
ScheduleWith(day, a, b) ==
    [d \in WeekDayNames |-> IF d = WeekDays[day] THEN Entry(a, b) ELSE Entry(b, a)]

InitDS ==
    /\ clock \in [day : 1 .. Len(WeekDays), hour : Hours]
    /\ \E a \in Hours, b \in Hours :
          schedules = << ProfileNoElb("one", "web", ScheduleWith(clock.day, a, b)) >>
    /\ \E s \in {"running", "stopped"} :
          /\ inst_state = [id \in Inst |-> s]
          /\ instances = << [id |-> 1, state |-> s] >>
    /\ attached = [n \in ElbNames |-> {}]
    /\ pc = "start_stop"
    /\ p = 1
    /\ i = 1
    /\ current_hour = 0
    /\ elbs = <<>>
    /\ e = 0
    /\ calls = <<>>
    /\ passes = 1
    /\ ticks = MaxTicks
    /\ faults = MaxFaults

NextDS ==
    \/ StartStopNext
    \/ GetDesiredState

SpecDS == InitDS /\ [][NextDS]_vars

\* ------------------------------------------------------ reading the history
\* positions of the history holding a call of one of the operations `ops`
\* made for profile k
Entries(ops, k) ==
    {n \in 1 .. Len(calls) : calls[n].op \in ops /\ calls[n].prof = k}

\* the same, restricted to calls on the target tgt
EntriesOn(ops, k, tgt) ==
    {n \in Entries(ops, k) : calls[n].tgt = tgt}

\* the evaluations of the desired state that returned a value
Evaluations == {n \in 1 .. Len(calls) : calls[n].op = "desired" /\ calls[n].ok}

\* start_stop_instances has been entered for profile k and has ended, by
\* returning or by an exception
StartStopOver(k) ==
    /\ \E n \in Entries({"list"}, k) : calls[n].ok
    /\ \/ p > k
       \/ p = k /\ pc \notin {"start_stop", "desired_state"}

\* reregister_elb_instances has returned for the profile the process is at
RefreshOver == pc = "next_profile"

ElbOps == {"lookup", "deregister", "register"}

\* ------------------------------------------------------------------ claims
\* the schedule entry an evaluation looked up
EntryOf(n) == schedules[calls[n].prof].schedule[calls[n].arg[1]]

\* C1: for every weekday, every current hour 0..23 and every entry
\* {start, stop} of that weekday, _get_desired_state returns 'start' if and
\* only if start <= current_hour < stop and 'stop' otherwise; 'start' at
\* current_hour = start < stop, 'stop' at current_hour = stop.
C1_DesiredStateIsWindow ==
    \A n \in Evaluations :
        LET h == calls[n].arg[2]
            d == calls[n].arg[3]
            w == EntryOf(n)
        IN  /\ calls[n].arg[1] = WeekDays[clock.day]
            /\ h = clock.hour
            /\ d \in {"start", "stop"}
            /\ d = "start" <=> (w.start <= h /\ h < w.stop)
            /\ h = w.stop => d = "stop"
            /\ (h = w.start /\ w.start < w.stop) => d = "start"

\* C1 witness: an evaluation on the stop hour of a non-empty window was made.
C1_Witness ==
    \E n \in Evaluations :
        /\ calls[n].arg[2] = EntryOf(n).stop
        /\ EntryOf(n).start < EntryOf(n).stop
        /\ calls[n].arg[3] = "stop"

\* the listing start_stop_instances was given for profile k
ListingOf(k) == calls[CHOOSE n \in Entries({"list"}, k) : calls[n].ok].arg

\* the desired state of the listed instance id of profile k: the one
\* evaluated for it, or, if the pass never came to it, the one the schedule
\* gives at the present instant
DesiredFor(k, id) ==
    IF \E n \in Evaluations : calls[n].prof = k /\ calls[n].tgt = id
    THEN calls[CHOOSE n \in Evaluations :
                   calls[n].prof = k /\ calls[n].tgt = id].arg[3]
    ELSE _get_desired_state(schedules[k].schedule, WeekDays[clock.day], clock.hour)

Starts(k, id) == Cardinality(EntriesOn({"start"}, k, id))

Stops(k, id) == Cardinality(EntriesOn({"stop"}, k, id))

\* C2: once a pass of start_stop_instances is over, every returned instance
\* observed running with desired state stop has had exactly one stop call and
\* no start call, every one observed stopped with desired state start exactly
\* one start call and no stop call, and every other running or stopped one no
\* call at all.
C2_EveryInstanceReconciled ==
    \A k \in 1 .. Len(schedules) :
        StartStopOver(k) =>
            \A m \in 1 .. Len(ListingOf(k)) :
                LET inst == ListingOf(k)[m]
                    d    == DesiredFor(k, inst.id)
                IN  /\ (inst.state = "running" /\ d = "stop")
                        => (Stops(k, inst.id) = 1 /\ Starts(k, inst.id) = 0)
                    /\ (inst.state = "stopped" /\ d = "start")
                        => (Starts(k, inst.id) = 1 /\ Stops(k, inst.id) = 0)
                    /\ (inst.state = "running" /\ d = "start")
                        => (Starts(k, inst.id) = 0 /\ Stops(k, inst.id) = 0)
                    /\ (inst.state = "stopped" /\ d = "stop")
                        => (Starts(k, inst.id) = 0 /\ Stops(k, inst.id) = 0)

\* C3: no start and no stop call is ever issued for an instance the listing
\* showed in a state other than 'running' and 'stopped'.
C3_NoActionOnOtherStates ==
    \A k \in 1 .. Len(schedules) :
        \A n \in Entries({"start", "stop"}, k) :
            \E m \in 1 .. Len(ListingOf(k)) :
                /\ ListingOf(k)[m].id = calls[n].tgt
                /\ ListingOf(k)[m].state \in {"running", "stopped"}

\* C3 witness: start_stop_instances is over for a profile whose listing held
\* an instance in a transitional or final state, and a call was issued on
\* another instance of the same listing.
C3_Witness ==
    \E k \in 1 .. Len(schedules) :
        /\ StartStopOver(k)
        /\ pc # "crashed"
        /\ \E m \in 1 .. Len(ListingOf(k)) :
              ListingOf(k)[m].state \notin {"running", "stopped"}
        /\ Entries({"start", "stop"}, k) # {}

\* a provider call of one of the operations `ops` made for profile k raised
Failed(ops, k) == \E n \in Entries(ops, k) : ~calls[n].ok

\* the pass of schedule() has ended, by returning or by an exception
PassOver == pc \in {"sleep", "crashed"} \/ (pc = "loop" /\ passes > 0)

\* C4: when the instance listing, a start/stop call or the load-balancer
\* lookup of one profile raises, every later profile still has its instances
\* listed in the same pass.
C4_LaterProfilesStillListed ==
    PassOver =>
        \A k \in 1 .. Len(schedules) :
            Failed({"list", "start", "stop", "lookup"}, k) =>
                \A j \in (k + 1) .. Len(schedules) : Entries({"list"}, j) # {}

\* C5: no error escapes the loop of run(): whatever was raised during a pass,
\* the process is not ended by it.
C5_NoErrorEscapesLoop ==
    (\E n \in 1 .. Len(calls) : ~calls[n].ok) => pc # "crashed"

Deregs(k, name) == EntriesOn({"deregister"}, k, name)

Regs(k, name) == EntriesOn({"register"}, k, name)

\* the deregister call made for profile k on the load balancer returned
DeregReturned(k, name) == \E n \in Deregs(k, name) : calls[n].ok

\* C6: when reregister_elb_instances returns, every load balancer that comes
\* after one whose deregister or register call raised has had its deregister
\* call, and its register call if that deregister returned.
C6_LaterLoadBalancersProcessed ==
    RefreshOver =>
        \A k \in 1 .. Len(elbs) :
            (\E n \in EntriesOn({"deregister", "register"}, p, elbs[k].name) :
                 ~calls[n].ok)
            => \A j \in (k + 1) .. Len(elbs) :
                   /\ Deregs(p, elbs[j].name) # {}
                   /\ DeregReturned(p, elbs[j].name) => Regs(p, elbs[j].name) # {}

\* C6 witness: the refresh returned after a call on one load balancer raised
\* and both calls on a later one returned.
C6_Witness ==
    /\ RefreshOver
    /\ \E k \in 1 .. Len(elbs) : \E j \in (k + 1) .. Len(elbs) :
          /\ \E n \in EntriesOn({"deregister", "register"}, p, elbs[k].name) :
                ~calls[n].ok
          /\ DeregReturned(p, elbs[j].name)
          /\ \E n \in Regs(p, elbs[j].name) : calls[n].ok

\* C7 as stated: when reregister_elb_instances returns, it has made no
\* provider call if the profile has no elb_names key, and otherwise exactly
\* one deregister and exactly one register call for each load balancer listed.
C7_ExactlyOnePairPerListed ==
    RefreshOver =>
        IF ~HasElbNames(profile)
        THEN Entries(ElbOps, p) = {}
        ELSE \A name \in SeqRange(profile.elb_names) :
                 /\ Cardinality(Deregs(p, name)) = 1
                 /\ Cardinality(Regs(p, name)) = 1

\* C7 as amended: no provider call without the key; with it, once the refresh
\* returns, the lookup was made once and each load balancer it returned has
\* had exactly one deregister call and one register call if that deregister
\* returned, none if it raised; no other load balancer has had a call, and at
\* no moment has a load balancer had two calls of one kind in a refresh.
C7_OnePairPerReturnedUnlessRaised ==
    /\ \A k \in 1 .. Len(schedules) : \A name \in ElbNames :
          /\ Cardinality(Deregs(k, name)) <= 1
          /\ Cardinality(Regs(k, name)) <= 1
          /\ ~HasElbNames(schedules[k]) => Entries(ElbOps \cup {"sleep1"}, k) = {}
    /\ RefreshOver /\ HasElbNames(profile) =>
          /\ Cardinality(Entries({"lookup"}, p)) = 1
          /\ \A n \in Entries({"lookup"}, p) : calls[n].ok /\ calls[n].arg = elbs
          /\ \A name \in ElbNames :
                IF \E k \in 1 .. Len(elbs) : elbs[k].name = name
                THEN /\ Cardinality(Deregs(p, name)) = 1
                     /\ Cardinality(Regs(p, name)) =
                            IF DeregReturned(p, name) THEN 1 ELSE 0
                ELSE Deregs(p, name) = {} /\ Regs(p, name) = {}

\* C7 witness: a refresh returned in which one load balancer's deregister
\* raised and another had its deregister and its register call.
C7_Witness ==
    /\ RefreshOver
    /\ HasElbNames(profile)
    /\ \E a \in 1 .. Len(elbs) : \E b \in 1 .. Len(elbs) :
          /\ Deregs(p, elbs[a].name) # {}
          /\ ~DeregReturned(p, elbs[a].name)
          /\ Regs(p, elbs[a].name) = {}
          /\ DeregReturned(p, elbs[b].name)
          /\ Regs(p, elbs[b].name) # {}

\* C8: for a profile whose elb_names is the empty sequence no provider call
\* is made by reregister_elb_instances: no lookup, no deregister, no register.
C8_EmptyElbNamesNoCall ==
    \A k \in 1 .. Len(schedules) :
        (HasElbNames(schedules[k]) /\ Len(schedules[k].elb_names) = 0)
            => Entries(ElbOps, k) = {}

\* the state the listing of profile k showed for instance id
ListedState(k, id) ==
    LET l == ListingOf(k)
    IN  l[CHOOSE m \in 1 .. Len(l) : l[m].id = id].state

\* every evaluation of the desired state made for profiles k and j read the
\* same weekday and the same hour
SameInstant(k, j) ==
    \A n \in Entries({"desired"}, k) \cup Entries({"desired"}, j) :
        \A m \in Entries({"desired"}, k) \cup Entries({"desired"}, j) :
            calls[n].arg[1] = calls[m].arg[1] /\ calls[n].arg[2] = calls[m].arg[2]

\* between the listings of profiles k and j an instance changed state only
\* as the request run k made on it asks for
OnlyOwnEffects(k, j) ==
    /\ {ListingOf(j)[m].id : m \in 1 .. Len(ListingOf(j))}
          = {ListingOf(k)[m].id : m \in 1 .. Len(ListingOf(k))}
    /\ \A m \in 1 .. Len(ListingOf(j)) :
          LET inst == ListingOf(j)[m]
          IN  IF EntriesOn({"stop"}, k, inst.id) # {}
              THEN inst.state \in {"stopping", "stopped"}
              ELSE IF EntriesOn({"start"}, k, inst.id) # {}
              THEN inst.state \in {"pending", "running"}
              ELSE inst.state = ListedState(k, inst.id)

\* profiles k and k + 1 name the same instances and the same schedule, and
\* start_stop_instances has run for both, one after the other, at one clock
\* hour and weekday with no change of state from outside
RunTwice(k) ==
    /\ k + 1 <= Len(schedules)
    /\ schedules[k].instance_tags = schedules[k + 1].instance_tags
    /\ schedules[k].schedule = schedules[k + 1].schedule
    /\ StartStopOver(k)
    /\ StartStopOver(k + 1)
    /\ SameInstant(k, k + 1)
    /\ OnlyOwnEffects(k, k + 1)

\* C9: when start_stop_instances runs twice in immediate succession on the
\* same instances and schedule at the same clock hour and weekday, and no
\* instance changed state but by the first run's own requests, the second run
\* issues no start and no stop call.
C9_SecondRunIssuesNothing ==
    \A k \in 1 .. Len(schedules) :
        RunTwice(k) => Entries({"start", "stop"}, k + 1) = {}

\* C9 witness: the second of two such runs has ended after the first one
\* issued a request.
C9_Witness ==
    /\ RunTwice(1)
    /\ Entries({"start", "stop"}, 1) # {}
    /\ p = 2
    /\ pc = "reregister"

\* the part of a profile's processing an entry of the history belongs to
Phase(op) ==
    IF op = "list" THEN 1
    ELSE IF op \in {"desired", "start", "stop"} THEN 2
    ELSE 3

\* C10: in every pass the calls are made profile by profile in the order of
\* schedules['profiles'], and within a profile the listing comes first, the
\* start/stop calls next and the load-balancer calls last.
C10_ProfileOrderAndPhases ==
    /\ Len(calls) > 0 => (calls[1].prof = 1 /\ calls[1].op = "list")
    /\ \A n \in 1 .. (Len(calls) - 1) :
          \/ /\ calls[n + 1].prof = calls[n].prof
             /\ calls[n + 1].op # "list"
             /\ Phase(calls[n + 1].op) >= Phase(calls[n].op)
          \/ /\ calls[n + 1].prof = calls[n].prof + 1
             /\ calls[n + 1].op = "list"

\* C10 witness: a pass returned in which two profiles each had a start or
\* stop call and a deregister call.
C10_Witness ==
    /\ pc = "sleep"
    /\ \A k \in {1, 2} :
          /\ Entries({"start", "stop"}, k) # {}
          /\ Entries({"deregister"}, k) # {}


\* the evaluations of the desired state made for profile k on instance id
EvaluationsOf(k, id) == EntriesOn({"desired"}, k, id)

\* C11: when the schedule has no entry for the weekday read, the evaluation of
\* the desired state raises a lookup error and returns neither 'start' nor
\* 'stop', and no start or stop call is issued for the instance evaluated; an
\* evaluation raises in no other case.
C11_MissingWeekdayRaises ==
    \A n \in 1 .. Len(calls) :
        calls[n].op = "desired" =>
            LET missing ==
                    calls[n].arg[1] \notin DOMAIN schedules[calls[n].prof].schedule
            IN  /\ missing <=> ~calls[n].ok
                /\ missing =>
                      /\ calls[n].arg[3] \notin {"start", "stop"}
                      /\ n = Len(calls)
                      /\ pc = "crashed"
                      /\ EntriesOn({"start", "stop"}, calls[n].prof, calls[n].tgt) = {}

\* C11 witness: the evaluation for an instance listed as running, on a weekday
\* the schedule leaves out, has raised.
C11_Witness ==
    \E n \in 1 .. Len(calls) :
        /\ calls[n].op = "desired"
        /\ ~calls[n].ok
        /\ ListedState(calls[n].prof, calls[n].tgt) = "running"


\* the state start_stop_instances reads for instance id from the listing it
\* iterates
ObservedState(id) ==
    instances[CHOOSE m \in 1 .. Len(instances) : instances[m].id = id].state

\* C12: when the entry of the weekday has start >= stop, the desired state is
\* 'stop' at every hour 0..23: no start call is issued for the instance
\* evaluated, and a stop call is issued for it when it is observed running.
C12_EmptyWindowAlwaysStop ==
    \A n \in Evaluations :
        (calls[n].prof = p /\ EntryOf(n).start >= EntryOf(n).stop) =>
            /\ calls[n].arg[3] = "stop"
            /\ EntriesOn({"start"}, p, calls[n].tgt) = {}
            /\ ObservedState(calls[n].tgt) = "running"
                   => Cardinality(EntriesOn({"stop"}, p, calls[n].tgt)) = 1
            /\ ObservedState(calls[n].tgt) = "stopped"
                   => EntriesOn({"stop"}, p, calls[n].tgt) = {}

\* C12 witness: a running instance was evaluated inside a window written
\* across midnight (start > stop, hour >= start) and was issued a stop.
C12_Witness ==
    \E n \in Evaluations :
        /\ EntryOf(n).start > EntryOf(n).stop
        /\ calls[n].arg[2] >= EntryOf(n).start
        /\ ObservedState(calls[n].tgt) = "running"
        /\ EntriesOn({"stop"}, p, calls[n].tgt) # {}


\* both calls of the refresh made for profile k on the load balancer returned
BothReturned(k, name) ==
    /\ DeregReturned(k, name)
    /\ \E n \in Regs(k, name) : calls[n].ok

\* C13: once a refresh of a later cycle has made both of its calls on a load
\* balancer and both returned, the load balancer has the instances attached
\* that it had before any refresh, also when an earlier cycle deregistered
\* them and did not register them again.
C13_NextCycleRestoresAttached ==
    \A k \in 1 .. Len(schedules) : \A name \in ElbNames :
        (passes >= 2 /\ BothReturned(k, name))
            => attached[name] = AttachedAtStart(name)


RECURSIVE HoursBack(_, _)
\* the clock k hours before c
HoursBack(c, k) == IF k = 0 THEN c ELSE HoursBack(PrevHour(c), k - 1)

\* the instants the clock has shown since the pass began, or earlier: the
\* clock moves by Tick during a pass, and once more by the sleep that ends it
ShownInPass == {HoursBack(clock, k) : k \in 0 .. (ticks + 1)}

\* C14: every evaluation of the desired state uses a (weekday, hour) pair
\* that the clock showed at one moment.
C14_PairFromOneInstant ==
    \A n \in 1 .. Len(calls) :
        calls[n].op = "desired" =>
            \E c \in ShownInPass :
                /\ calls[n].arg[1] = WeekDays[c.day]
                /\ calls[n].arg[2] = c.hour


\* the ids, in order, of the instances the lookup made for profile k listed as
\* attached to the load balancer; the lookup answers with one record per load
\* balancer
LookedUp(k, name) ==
    LET r  == calls[CHOOSE n \in Entries({"lookup"}, k) : calls[n].ok].arg
        at == r[CHOOSE m \in 1 .. Len(r) : r[m].name = name].instances
    IN  [j \in 1 .. Len(at) |-> at[j].id]

\* C15: a deregister call carries exactly the ids listed as attached to the
\* load balancer at lookup time; a register call comes only after a deregister
\* call of the same refresh on the same load balancer that returned, and
\* carries the same id list.
C15_DeregisterThenRegisterSameIds ==
    \A n \in 1 .. Len(calls) :
        /\ calls[n].op = "deregister" =>
              calls[n].arg = LookedUp(calls[n].prof, calls[n].tgt)
        /\ calls[n].op = "register" =>
              \E m \in 1 .. (n - 1) :
                  /\ calls[m].op = "deregister"
                  /\ calls[m].prof = calls[n].prof
                  /\ calls[m].tgt = calls[n].tgt
                  /\ calls[m].ok
                  /\ calls[m].arg = calls[n].arg

\* C15 witness: a register call carrying at least one id was made.
C15_Witness ==
    \E n \in 1 .. Len(calls) :
        calls[n].op = "register" /\ Len(calls[n].arg) > 0


Delays(k, name) == EntriesOn({"sleep1"}, k, name)

\* C16: a delay comes right after the last call on a load balancer, whether
\* that call returned or raised; the first call on a load balancer comes right
\* after the lookup or after the delay of the one before, never right after
\* another load balancer's call; and when the refresh returns every load
\* balancer it went through has had exactly one delay.
C16_OneDelayAfterEachLoadBalancer ==
    /\ \A n \in 1 .. Len(calls) :
          /\ calls[n].op = "deregister" =>
                /\ n > 1
                /\ calls[n - 1].prof = calls[n].prof
                /\ \/ calls[n - 1].op = "lookup"
                   \/ calls[n - 1].op = "sleep1" /\ calls[n - 1].tgt # calls[n].tgt
          /\ calls[n].op = "register" =>
                /\ calls[n - 1].op = "deregister"
                /\ calls[n - 1].tgt = calls[n].tgt
          /\ calls[n].op = "sleep1" =>
                /\ calls[n - 1].prof = calls[n].prof
                /\ calls[n - 1].tgt = calls[n].tgt
                /\ \/ calls[n - 1].op = "register"
                   \/ calls[n - 1].op = "deregister" /\ ~calls[n - 1].ok
                /\ Cardinality(Delays(calls[n].prof, calls[n].tgt)) = 1
    /\ RefreshOver =>
          \A k \in 1 .. Len(elbs) : Cardinality(Delays(p, elbs[k].name)) = 1

\* C16 witness: a refresh returned in which the deregister call on one load
\* balancer raised and the calls on the next one were made.
C16_Witness ==
    /\ RefreshOver
    /\ \E n \in 1 .. Len(calls) :
          /\ calls[n].op = "deregister"
          /\ ~calls[n].ok
          /\ n + 3 <= Len(calls)
          /\ calls[n + 1].op = "sleep1"
          /\ calls[n + 2].op = "deregister"
          /\ calls[n + 3].op = "register"


\* C17: when the refresh of a profile that names load balancers returns, every
\* load balancer named has had its deregister call, and its register call if
\* that deregister returned, whether or not a start or stop call was made for
\* the profile or for any profile in the pass.
C17_ReregistrationUnconditional ==
    (RefreshOver /\ "elb_names" \in DOMAIN profile) =>
        \A k \in 1 .. Len(profile.elb_names) :
            /\ Deregs(p, profile.elb_names[k]) # {}
            /\ DeregReturned(p, profile.elb_names[k])
                   => Regs(p, profile.elb_names[k]) # {}

\* C17 witness: the refresh of a profile returned after both calls were made
\* on a load balancer it names, in a pass without any start or stop call.
C17_Witness ==
    /\ RefreshOver
    /\ "elb_names" \in DOMAIN profile
    /\ \A n \in 1 .. Len(calls) : calls[n].op \notin {"start", "stop"}
    /\ \E k \in 1 .. Len(profile.elb_names) :
          BothReturned(p, profile.elb_names[k])


\* C18: the loop alternates between a pass and a wait. Before the first pass
\* no wait has been made: the process is at the head of the loop with the
\* clock it started with. A pass begins only at the head of the loop, one at a
\* time, and without the clock moving; the process reaches the wait only when
\* the last profile of a pass is done; it leaves the wait only for the head
\* of the loop, one hour later; and it reaches the head of the loop again
\* only out of the wait, so that no two passes run back to back.
C18_PassAndWaitAlternate ==
    /\ [](passes = 0 =>
             /\ pc = "loop"
             /\ ticks = 0
             /\ clock \in [day : StartDays, hour : StartHours])
    /\ [][/\ passes' # passes =>
                /\ pc = "loop"
                /\ passes' = passes + 1
                /\ clock' = clock
                /\ pc' = "get_instances"
                /\ p' = FirstProfile
          /\ (pc = "loop" /\ pc' # "loop") => passes' = passes + 1
          /\ (pc # "sleep" /\ pc' = "sleep") =>
                /\ pc = "next_profile"
                /\ ~HasProfile(AfterProfile(p))
                /\ passes' = passes
          /\ (pc = "sleep" /\ pc' # "sleep") =>
                /\ pc' = "loop"
                /\ clock' = NextHour(clock)
                /\ passes' = passes
          /\ (pc # "loop" /\ pc' = "loop") => pc = "sleep"
         ]_vars

\* C18 witness: the second pass has begun, after the first pass and its wait.
C18_Witness ==
    /\ passes = 2
    /\ pc = "get_instances"
    /\ p = FirstProfile
    /\ calls = <<>>


\* C19: for every entry whose start and stop are hours in 0..23, on every
\* weekday, the desired state evaluated at current hour 23 is 'stop': no start
\* call is issued for the instance evaluated, and an instance observed running
\* is issued a stop call.
C19_LastHourAlwaysStop ==
    \A n \in Evaluations :
        (/\ calls[n].prof = p
         /\ calls[n].arg[2] = HoursPerDay - 1
         /\ EntryOf(n).start \in Hours
         /\ EntryOf(n).stop \in Hours) =>
            /\ calls[n].arg[3] = "stop"
            /\ EntriesOn({"start"}, p, calls[n].tgt) = {}
            /\ ObservedState(calls[n].tgt) = "running"
                   => Cardinality(EntriesOn({"stop"}, p, calls[n].tgt)) = 1

\* C19 witness: a running instance was evaluated at hour 23 against the widest
\* window an entry can have, start 0 and stop 23, and was issued a stop.
C19_Witness ==
    \E n \in Evaluations :
        /\ calls[n].arg[2] = HoursPerDay - 1
        /\ EntryOf(n).start = 0
        /\ EntryOf(n).stop = HoursPerDay - 1
        /\ ObservedState(calls[n].tgt) = "running"
        /\ calls[n].arg[3] = "stop"
        /\ EntriesOn({"stop"}, p, calls[n].tgt) # {}

====
